---- MODULE Spec2Model ----
(***************************************************************************)
(* Scan orchestration of spot-saves: AWSScanner (backend/app/scanner.py),  *)
(* the background task run_scan (backend/app/main.py) and the progress     *)
(* stream scan_progress_stream (backend/app/streaming.py).                 *)
(*                                                                         *)
(* Money is held exactly, in units of 1e-5 dollar before rounding and in   *)
(* cents after round(x, 2).  For every amount the scanners emit from the   *)
(* price table the exact value is not a rounding tie, so Python's float    *)
(* round() and the exact rounding below agree.                             *)
(***************************************************************************)
EXTENDS Integers, Sequences, FiniteSets, Bags, TLC

\* ---------------------------------------------------------------- bounds
MaxInstances == 2
MaxFaults == 1
MaxSinkFailures == 1

\* ------------------------------------------------------------- constants
Categories == {"ri_sp", "rightsizing", "idle", "graviton"}

\* the scanners that call _batch_get_metrics / _batch_get_idle_metrics
NeedsMetrics == {"rightsizing", "idle"}

NoData == -1                  \* dict.get() returned None: key absent

HoursPerMonth == 730
batch_size == 500              \* queries per get_metric_data request
max_workers == 4               \* ThreadPoolExecutor(max_workers=4)
DefaultRate == 8000           \* 0.08 $/h, in 1e-5 $
RIThreshold == 1000000        \* 10 $
RightsizeThreshold == 500000  \* 5 $
CpuRightsize == 20
MemRightsize == 20
CpuIdle == 5
NetworkIdle == 1000000

size_order == <<"nano", "micro", "small", "medium", "large", "xlarge",
                "2xlarge", "4xlarge", "8xlarge">>

pricing_map == [s \in {size_order[i] : i \in 1..Len(size_order)} |->
    CASE s = "nano"    -> 500
      [] s = "micro"   -> 1000
      [] s = "small"   -> 2000
      [] s = "medium"  -> 4000
      [] s = "large"   -> 8000
      [] s = "xlarge"  -> 16000
      [] s = "2xlarge" -> 32000
      [] s = "4xlarge" -> 64000
      [] s = "8xlarge" -> 128000]

PremiumFamilies == {"m5", "c5", "r5", "m7g", "c7g", "r7g"}

graviton_families == [f \in {"t3", "t3a", "m5", "m5a", "m5n", "c5", "c5a",
                             "c5n", "r5", "r5a", "r5n"} |->
    CASE f \in {"t3", "t3a"}        -> "t4g"
      [] f \in {"m5", "m5a", "m5n"} -> "m7g"
      [] f \in {"c5", "c5a", "c5n"} -> "c7g"
      [] f \in {"r5", "r5a", "r5n"} -> "r7g"]

\* ------------------------------------------------------------ the state
VARIABLES
    instances,              \* what describe_instances lists, in listing order
    faults,                 \* per scanner: the remote fault it meets, if any
    caller,                 \* "run_scan" (the service) or "direct" (the library API)
    scan_type,              \* "full" or "quick"
    notification_email,     \* TRUE when an address was supplied
    future,                 \* per scanner: "none", "running", "done", "raised"
    idx,                    \* per scanner: how many listed instances it examined
    out,                    \* per scanner: its local list `opportunities`
    metric_queries,         \* per scanner: the dict the Metric Batcher builds
    requests,               \* per scanner: the get_metric_data requests issued
    batched,                \* per scanner: the Metric Batcher has returned
    pc,                     \* position of the calling thread
    collected,              \* futures the as_completed loop has consumed
    cur,                    \* the future whose opportunities are being saved
    pos,                    \* index of the next opportunity to hand to the sink
    results,                \* the dict `results` of the orchestrator
    exc,                    \* the exception caught by run_scan, <<>> when none
    status,                 \* ScanResult.status as committed
    error_message,          \* ScanResult.error_message, <<>> for None
    total_potential_savings,\* ScanResult.total_potential_savings (cents)
    rows,                   \* SavingsOpportunity rows of the scan, in insert order
    sinkCalls,              \* every opportunity handed to save_callback, in order
    sinkRaised,             \* the opportunities for which save_callback raised
    batchOpps,              \* multiset returned by scan_account, kept by the caller
    streamPc,               \* position of scan_progress_stream
    seen_status,            \* scan_result.status as last refreshed by the stream
    last_count,
    last_status,
    snapshot                \* the last snapshot the stream emitted, <<>> when none

vars == <<instances, faults, caller, scan_type, notification_email, future, idx,
          out, metric_queries, requests, batched, pc, collected, cur, pos, results, exc, status, error_message,
          total_potential_savings, rows, sinkCalls, sinkRaised, batchOpps,
          streamPc, seen_status, last_count, last_status, snapshot>>

inputVars == <<instances, faults, caller, scan_type, notification_email>>
workerVars == <<future, idx, out, metric_queries, requests, batched>>
dbVars == <<status, error_message, total_potential_savings, rows>>
streamVars == <<streamPc, seen_status, last_count, last_status, snapshot>>

\* --------------------------------------------------------- pure helpers
\* round(v / d) to the nearest integer, ties to even (Python round)
RoundHalfEven(v, d) ==
    LET q == v \div d
        r == v % d
    IN IF 2 * r > d \/ (2 * r = d /\ q % 2 = 1) THEN q + 1 ELSE q

\* round(x, 2): 1e-5 dollars to cents
round2(v) == RoundHalfEven(v, 1000)

\* round((a / b) * 100, 1), in tenths of a percent; a and b are whole
\* thousandths of a dollar
round1pct(a, b) == RoundHalfEven((a \div 100) * 1000, b \div 100)

\* mutant: only 0.0 is falsy, an absent metric compares like a number
TruthyWhenAbsent(x) == x # 0

\* Python truthiness of a metric read with dict.get(): None and 0.0 are falsy
Truthy(x) == x # NoData /\ x # 0

\* d.get(key): a dict is a function on its keys
Get(d, key) == IF key \in DOMAIN d THEN d[key] ELSE NoData

\* mutant: the burstable t3 family is priced as a premium family
_estimate_hourly_cost_t3_premium(parts) ==
    IF Len(parts) = 2
    THEN LET family == parts[1]
             size == parts[2]
             base_cost == IF size \in DOMAIN pricing_map
                          THEN pricing_map[size] ELSE DefaultRate
         IN IF family \in PremiumFamilies \cup {"t3"}
            THEN (base_cost * 12) \div 10
            ELSE base_cost
    ELSE DefaultRate

\* instance_type is held as instance_type.split('.')
_estimate_hourly_cost(parts) ==
    IF Len(parts) = 2
    THEN LET family == parts[1]
             size == parts[2]
             base_cost == IF size \in DOMAIN pricing_map
                          THEN pricing_map[size] ELSE DefaultRate
         IN IF family \in PremiumFamilies
            THEN (base_cost * 12) \div 10
            ELSE base_cost
    ELSE DefaultRate

IndexOf(seq, x) ==
    IF \E i \in 1..Len(seq) : seq[i] = x
    THEN CHOOSE i \in 1..Len(seq) : seq[i] = x
    ELSE 0

\* <<>> stands for None
_get_smaller_instance_type(parts) ==
    IF Len(parts) = 2
    THEN LET current_idx == IndexOf(size_order, parts[2])
         IN IF current_idx > 1
            THEN <<parts[1], size_order[current_idx - 1]>>
            ELSE <<>>
    ELSE <<>>

Opportunity(type, inst, cost, monthly, annual, pct, risk, timeline, rec) ==
    [opportunity_type |-> type,
     resource_id |-> inst.InstanceId,
     region |-> inst.region,
     current_cost_monthly |-> cost,
     potential_savings_monthly |-> monthly,
     potential_savings_annual |-> annual,
     savings_percentage |-> pct,
     risk_level |-> risk,
     expected_savings_timeline |-> timeline,
     recommended |-> rec]

\* the annual figure as the scanners compute it: from the unrounded monthly
AnnualOf(monthly_savings) == round2(monthly_savings * 12)

\* mutant: the 10-unit floor is not applied
RIRuleNoThreshold(inst) ==
    LET monthly_cost == _estimate_hourly_cost(inst.InstanceType) * HoursPerMonth
        ri_monthly_cost == (monthly_cost \div 100) * 65
        monthly_savings == monthly_cost - ri_monthly_cost
    IN <<Opportunity("ri_sp", inst, round2(monthly_cost),
                     round2(monthly_savings), AnnualOf(monthly_savings),
                     350, "low", "immediate", <<>>)>>

\* body of the per-instance loop of _scan_reserved_instances
RIRule(inst) ==
    LET monthly_cost == _estimate_hourly_cost(inst.InstanceType) * HoursPerMonth
        \* monthly_cost * 0.65; every monthly cost is a multiple of 100
        ri_monthly_cost == (monthly_cost \div 100) * 65
        monthly_savings == monthly_cost - ri_monthly_cost
    IN IF monthly_savings > RIThreshold
       THEN <<Opportunity("ri_sp", inst, round2(monthly_cost),
                          round2(monthly_savings), AnnualOf(monthly_savings),
                          350, "low", "immediate", <<>>)>>
       ELSE <<>>

\* body of the per-instance loop of _scan_rightsizing
RightsizingRule(inst) ==
    LET cpu_util == Get(metric_queries["rightsizing"], <<inst.InstanceId, "cpu">>)
        mem_util == Get(metric_queries["rightsizing"], <<inst.InstanceId, "mem">>)
    IN IF Truthy(cpu_util) /\ Truthy(mem_util)
          /\ cpu_util < CpuRightsize /\ mem_util < MemRightsize
       THEN LET current_cost == _estimate_hourly_cost(inst.InstanceType) * HoursPerMonth
                smaller_type == _get_smaller_instance_type(inst.InstanceType)
            IN IF smaller_type # <<>>
               THEN LET smaller_cost == _estimate_hourly_cost(smaller_type) * HoursPerMonth
                        monthly_savings == current_cost - smaller_cost
                    IN IF monthly_savings > RightsizeThreshold
                       THEN <<Opportunity("rightsizing", inst, round2(current_cost),
                                  round2(monthly_savings), AnnualOf(monthly_savings),
                                  round1pct(monthly_savings, current_cost),
                                  "medium", "immediate", smaller_type)>>
                       ELSE <<>>
               ELSE <<>>
       ELSE <<>>

\* mutant: an idle instance is reported with the savings of its reservation
IdleRuleReservedSavings(inst) ==
    LET cpu_util == Get(metric_queries["idle"], <<inst.InstanceId, "cpu">>)
        network_in == Get(metric_queries["idle"], <<inst.InstanceId, "network">>)
    IN IF Truthy(cpu_util) /\ cpu_util < CpuIdle
          /\ Truthy(network_in) /\ network_in < NetworkIdle
       THEN LET monthly_cost == _estimate_hourly_cost(inst.InstanceType) * HoursPerMonth
                saved == (monthly_cost \div 100) * 35
            IN <<Opportunity("idle", inst, round2(monthly_cost), round2(saved),
                             AnnualOf(saved), 350, "medium", "immediate", <<>>)>>
       ELSE <<>>

\* body of the per-instance loop of _scan_idle_resources
IdleRule(inst) ==
    LET cpu_util == Get(metric_queries["idle"], <<inst.InstanceId, "cpu">>)
        network_in == Get(metric_queries["idle"], <<inst.InstanceId, "network">>)
    IN IF Truthy(cpu_util) /\ cpu_util < CpuIdle
          /\ Truthy(network_in) /\ network_in < NetworkIdle
       THEN LET monthly_cost == _estimate_hourly_cost(inst.InstanceType) * HoursPerMonth
            IN <<Opportunity("idle", inst, round2(monthly_cost), round2(monthly_cost),
                             AnnualOf(monthly_cost), 1000, "medium", "immediate", <<>>)>>
       ELSE <<>>

\* mutant: the architecture of the instance is not looked at
GravitonRuleAnyArchitecture(inst) ==
    LET parts == inst.InstanceType
        family == parts[1]
    IN IF family \in DOMAIN graviton_families
       THEN LET current_cost == _estimate_hourly_cost(parts) * HoursPerMonth
                graviton_savings == (current_cost \div 100) * 20
                size == IF Len(parts) > 1 THEN parts[2] ELSE "medium"
            IN <<Opportunity("graviton", inst, round2(current_cost),
                             round2(graviton_savings), AnnualOf(graviton_savings),
                             200, "medium", "1-month",
                             <<graviton_families[family], size>>)>>
       ELSE <<>>

\* body of the per-instance loop of _scan_graviton_migration
GravitonRule(inst) ==
    LET parts == inst.InstanceType
        family == parts[1]
    IN IF family \in DOMAIN graviton_families /\ inst.Architecture # "arm64"
       THEN LET current_cost == _estimate_hourly_cost(parts) * HoursPerMonth
                \* current_cost * 0.20
                graviton_savings == (current_cost \div 100) * 20
                size == IF Len(parts) > 1 THEN parts[2] ELSE "medium"
            IN <<Opportunity("graviton", inst, round2(current_cost),
                             round2(graviton_savings), AnnualOf(graviton_savings),
                             200, "medium", "1-month",
                             <<graviton_families[family], size>>)>>
       ELSE <<>>

Rule(c, inst) ==
    CASE c = "ri_sp"       -> RIRule(inst)
      [] c = "rightsizing" -> RightsizingRule(inst)
      [] c = "idle"        -> IdleRule(inst)
      [] c = "graviton"    -> GravitonRule(inst)

\* ------------------------------------------------------------- listings
Instance(id, type, arch, region, state, cpu, mem, net) ==
    [InstanceId |-> id, InstanceType |-> type, Architecture |-> arch,
     region |-> region, State |-> state, cpu |-> cpu, mem |-> mem, net |-> net]

\* instance['State']['Name'] == 'running'
Running(L) == SelectSeq(L, LAMBDA i : i.State = "running")

RECURSIVE RegionKeys(_)
\* keys of instances_by_region, in insertion order
RegionKeys(L) ==
    IF L = <<>> THEN <<>>
    ELSE LET rest == RegionKeys(SubSeq(L, 1, Len(L) - 1))
             r == L[Len(L)].region
         IN IF \E i \in 1..Len(rest) : rest[i] = r THEN rest ELSE Append(rest, r)

RECURSIVE ByRegion(_, _)
\* the order in which _scan_reserved_instances visits the running instances
ByRegion(L, keys) ==
    IF keys = <<>> THEN <<>>
    ELSE SelectSeq(L, LAMBDA i : i.region = Head(keys)) \o ByRegion(L, Tail(keys))

\* the sequence of instances scanner c visits
Listing(c) ==
    IF c = "ri_sp"
    THEN ByRegion(Running(instances), RegionKeys(Running(instances)))
    ELSE Running(instances)

RECURSIVE SumMonthly(_)
\* sum(opp['potential_savings_monthly'] for opp in opportunities)
SumMonthly(opps) ==
    IF opps = <<>> THEN 0
    ELSE Head(opps).potential_savings_monthly + SumMonthly(Tail(opps))

RECURSIVE SumAnnual(_)
\* sum(opp.potential_savings_annual for opp in opportunities)
SumAnnual(opps) ==
    IF opps = <<>> THEN 0
    ELSE Head(opps).potential_savings_annual + SumAnnual(Tail(opps))

\* `results` before the totals are computed
EmptyResults ==
    [opportunities |-> <<>>, total_savings_monthly |-> 0, total_savings_annual |-> 0]

\* "Calculate totals" of scan_account, scan_account_progressive and the quick path
WithTotals(opps) ==
    [opportunities |-> opps,
     total_savings_monthly |-> SumMonthly(opps),
     total_savings_annual |-> SumMonthly(opps) * 12]

RECURSIVE SeqToBag(_)
SeqToBag(s) ==
    IF s = <<>> THEN EmptyBag ELSE SeqToBag(Tail(s)) (+) SetToBag({Head(s)})

\* --------------------------------------------------------------- inputs
\* the instances a listing is drawn from: one that every rule fires on and
\* whose savings do not round exactly, and one with no metric data.  cpu, mem
\* and net are the datapoints the remote holds for the instance's metrics
InstanceKinds == {
    [InstanceType |-> <<"m5", "large">>, Architecture |-> "x86_64",
     region |-> "us-east-1", State |-> "running",
     cpu |-> <<2, 4>>, mem |-> <<10>>, net |-> <<500000>>],
    [InstanceType |-> <<"t3", "medium">>, Architecture |-> "x86_64",
     region |-> "us-west-2", State |-> "running",
     cpu |-> <<>>, mem |-> <<>>, net |-> <<>>] }

Listings ==
    UNION { { [i \in 1..n |-> Instance(i, k[i].InstanceType, k[i].Architecture,
                                       k[i].region, k[i].State,
                                       k[i].cpu, k[i].mem, k[i].net)]
              : k \in [1..n -> InstanceKinds] }
            : n \in 0..MaxInstances }

NoFault == [kind |-> "none", at |-> 0]

\* remote faults a scanner can meet.  A ClientError is caught by the scanner
\* itself; in _scan_reserved_instances, _scan_rightsizing and
\* _scan_idle_resources the only remote call that can raise one is the listing,
\* made before the first instance is examined, while _scan_graviton_migration
\* examines instances page by page.  Any other exception leaves the scanner.
\* A ChunkError is the exception of the at-th get_metric_data request, caught
\* by the Metric Batcher.
FaultPlans(L) ==
    LET n == IF Len(L) = 0 THEN 1 ELSE Len(L)
        Allowed(c) ==
            {NoFault}
            \cup {[kind |-> "Exception", at |-> k] : k \in 1..n}
            \cup {[kind |-> "ClientError", at |-> k] :
                    k \in IF c = "graviton" THEN 1..n ELSE {1}}
            \cup {[kind |-> "ChunkError", at |-> k] :
                    k \in IF c \in NeedsMetrics
                          THEN {k \in 1..(2 * Len(L)) :
                                  (k - 1) * batch_size < 2 * Len(L)}
                          ELSE {}}
    IN { f \in [Categories -> UNION {Allowed(c) : c \in Categories}] :
           /\ \A c \in Categories : f[c] \in Allowed(c)
           /\ Cardinality({c \in Categories : f[c] # NoFault}) <= MaxFaults }

\* An exception message is held as the set of the patterns of parse_aws_error
\* that its lower-cased text contains.
\* str(e) of the ClientError that sts.assume_role raised
UpstreamMessages ==
    { {}, {"access denied"}, {"invalid"}, {"invalid", "arn", "invalid role"} }

\* str(e) of what run_scan catches, by the place that raised it
Messages(origin) ==
    CASE origin = "assume_role" -> {{"role"} \cup u : u \in UpstreamMessages}
      [] origin = "notify"      -> {{"invalid"}}
      [] OTHER                  -> {{}}

Exc(origin, msg) == [origin |-> origin, msg |-> msg]

Init ==
    /\ instances \in Listings
    /\ faults \in FaultPlans(Running(instances))
    /\ caller \in {"run_scan", "direct"}
    /\ scan_type \in (IF caller = "run_scan" THEN {"full", "quick"} ELSE {"full"})
    /\ notification_email \in (IF caller = "run_scan" THEN BOOLEAN ELSE {FALSE})
    /\ future = [c \in Categories |-> "none"]
    /\ idx = [c \in Categories |-> 0]
    /\ out = [c \in Categories |-> <<>>]
    /\ metric_queries = [c \in Categories |-> <<>>]
    /\ requests = [c \in Categories |-> <<>>]
    /\ batched = [c \in Categories |-> FALSE]
    /\ pc = "construct"
    /\ collected = {}
    /\ cur = "none"
    /\ pos = 0
    /\ results = EmptyResults
    /\ exc = <<>>
    /\ status = "running"
    /\ error_message = <<>>
    /\ total_potential_savings = 0
    /\ rows = <<>>
    /\ sinkCalls = <<>>
    /\ sinkRaised = <<>>
    /\ batchOpps = EmptyBag
    /\ streamPc = "closed"
    /\ seen_status = "none"
    /\ last_count = 0
    /\ last_status = "none"
    /\ snapshot = <<>>

\* ------------------------------------------------------ AWSScanner(...)
\* executor.submit() of every scan function: the pool has one worker each
Submitted(cs) == [c \in Categories |-> IF c \in cs THEN "running" ELSE "none"]

\* mutant: the quick scan starts all four scan functions
AssumeRoleOkQuickRunsAll ==
    /\ pc = "construct"
    /\ pc' = IF caller = "direct" THEN "batch_collect"
             ELSE IF scan_type = "quick" THEN "quick_scan" ELSE "prog_collect"
    /\ future' = Submitted(Categories)
    /\ UNCHANGED <<inputVars, idx, out, metric_queries, requests, batched,
                   collected, cur, pos, results, exc,
                   dbVars, sinkCalls, sinkRaised, batchOpps, streamVars>>

\* _assume_role succeeds; run_scan branches on scan_type
AssumeRoleOk ==
    /\ pc = "construct"
    /\ pc' = IF caller = "direct" THEN "batch_collect"
             ELSE IF scan_type = "quick" THEN "quick_scan" ELSE "prog_collect"
    /\ future' = IF caller = "run_scan" /\ scan_type = "quick"
                 THEN Submitted({"ri_sp"}) ELSE Submitted(Categories)
    /\ UNCHANGED <<inputVars, idx, out, metric_queries, requests, batched,
                   collected, cur, pos, results, exc,
                   dbVars, sinkCalls, sinkRaised, batchOpps, streamVars>>

\* mutant: _assume_role swallows the rejection and the scan goes on
AssumeRoleFailsSwallowed ==
    /\ pc = "construct"
    /\ \E m \in Messages("assume_role") : exc' = <<Exc("assume_role", m)>>
    /\ pc' = IF caller = "direct" THEN "batch_collect"
             ELSE IF scan_type = "quick" THEN "quick_scan" ELSE "prog_collect"
    /\ future' = IF caller = "run_scan" /\ scan_type = "quick"
                 THEN Submitted({"ri_sp"}) ELSE Submitted(Categories)
    /\ UNCHANGED <<inputVars, idx, out, metric_queries, requests, batched,
                   collected, cur, pos, results,
                   dbVars, sinkCalls, sinkRaised, batchOpps, streamVars>>

\* sts.assume_role is rejected: "Failed to assume role: <upstream message>"
AssumeRoleFails ==
    /\ pc = "construct"
    /\ \E m \in Messages("assume_role") : exc' = <<Exc("assume_role", m)>>
    /\ pc' = IF caller = "run_scan" THEN "except" ELSE "done"
    /\ UNCHANGED <<inputVars, workerVars, collected, cur, pos, results,
                   dbVars, sinkCalls, sinkRaised, batchOpps, streamVars>>

\* ------------------------------------------------------- Metric Batcher
\* the two metrics a scanner asks for, as the prefixes of its query ids
MetricTypes(c) ==
    IF c = "rightsizing" THEN <<"cpu", "mem">> ELSE <<"cpu", "net">>

\* the ids 'cpu_0', 'mem_0', 'cpu_1', ... of metric_data_queries, each held
\* as <<metric_type, idx>>, which is what query_id.split('_') recovers
metric_data_queries(c, all_instances) ==
    [j \in 1..(2 * Len(all_instances)) |->
        <<MetricTypes(c)[((j - 1) % 2) + 1], (j - 1) \div 2>>]

\* mutant: the slice is one query too long
BatchOversized(queries, i) ==
    SubSeq(queries, i + 1,
           IF i + batch_size + 1 < Len(queries)
           THEN i + batch_size + 1 ELSE Len(queries))

\* metric_data_queries[i:i+batch_size]
Batch(queries, i) ==
    SubSeq(queries, i + 1,
           IF i + batch_size < Len(queries) THEN i + batch_size ELSE Len(queries))

\* MetricDataResults of the remote: the query's dimension is the InstanceId of
\* all_instances[idx], and Values are the datapoints the remote holds for it
get_metric_data(batch, all_instances) ==
    [j \in 1..Len(batch) |->
        [Id |-> batch[j],
         Values |-> all_instances[batch[j][2] + 1][batch[j][1]]]]

RECURSIVE SumValues(_)
SumValues(values) ==
    IF values = <<>> THEN 0 ELSE Head(values) + SumValues(Tail(values))

\* sum(values) / len(values)
avg_value(values) == SumValues(values) \div Len(values)

\* the key under which the scanner of category c looks a metric up
ResultKey(c, instance_id, metric_type) ==
    <<instance_id,
      IF c = "idle" /\ metric_type = "net" THEN "network" ELSE metric_type>>

RECURSIVE ResponseDict(_, _, _, _, _)
\* the assignments `results[key] = avg_value` made for the lo-th to the hi-th
\* result of a response, as a dict; a later assignment to a key wins
ResponseDict(c, response, all_instances, lo, hi) ==
    IF lo > hi THEN <<>>
    ELSE IF lo = hi
    THEN LET values == response[lo].Values
             metric_type == response[lo].Id[1]
             i == response[lo].Id[2]
         IN IF values # <<>> /\ i < Len(all_instances)
            THEN ResultKey(c, all_instances[i + 1].InstanceId, metric_type)
                    :> avg_value(values)
            ELSE <<>>
    ELSE LET mid == (lo + hi) \div 2
         IN ResponseDict(c, response, all_instances, mid + 1, hi)
               @@ ResponseDict(c, response, all_instances, lo, mid)

\* `for result in response.get('MetricDataResults', [])` on the dict `merged`
MergeResults(c, merged, response, all_instances) ==
    ResponseDict(c, response, all_instances, 1, Len(response)) @@ merged

\* the paginator of describe_instances raises before any instance is examined
ListingFault(c) ==
    faults[c].kind \in {"ClientError", "Exception"} /\ faults[c].at = 1

\* one pass of `for i in range(0, len(metric_data_queries), batch_size)` in
\* _batch_get_metrics / _batch_get_idle_metrics, with the return that follows
\* the last pass, the empty listing or the exception of a request
MetricChunk(c) ==
    /\ c \in NeedsMetrics
    /\ future[c] = "running" /\ ~batched[c]
    /\ ~ListingFault(c)
    /\ LET all_instances == Running(instances)
           queries == metric_data_queries(c, all_instances)
           i == Len(requests[c]) * batch_size
           batch == Batch(queries, i)
       IN IF all_instances = <<>>
          THEN /\ batched' = [batched EXCEPT ![c] = TRUE]
               /\ UNCHANGED <<requests, metric_queries>>
          ELSE /\ requests' = [requests EXCEPT ![c] = Append(@, batch)]
               /\ IF faults[c].kind = "ChunkError"
                     /\ faults[c].at = Len(requests[c]) + 1
                  THEN /\ batched' = [batched EXCEPT ![c] = TRUE]
                       /\ UNCHANGED metric_queries
                  ELSE /\ metric_queries' = [metric_queries EXCEPT ![c] =
                              MergeResults(c, @,
                                  get_metric_data(batch, all_instances),
                                  all_instances)]
                       /\ batched' = [batched EXCEPT ![c] =
                              ~(i + batch_size < Len(queries))]
    /\ UNCHANGED <<inputVars, future, idx, out, pc, collected, cur, pos,
                   results, exc, dbVars, sinkCalls, sinkRaised, batchOpps,
                   streamVars>>

\* ------------------------------------------------------ category scanner
\* mutant: the worker hands what it produces to the sink itself
ScannerStepCallsSink(c) ==
    /\ future[c] = "running"
    /\ c \in NeedsMetrics => (batched[c] \/ ListingFault(c))
    /\ LET L == Listing(c)
           k == idx[c] + 1
       IN IF faults[c].kind \in {"ClientError", "Exception"} /\ faults[c].at = k
          THEN /\ future' = [future EXCEPT ![c] =
                     IF faults[c].kind = "ClientError" THEN "done" ELSE "raised"]
               /\ UNCHANGED <<idx, out, sinkCalls>>
          ELSE IF L = <<>>
          THEN /\ future' = [future EXCEPT ![c] = "done"]
               /\ UNCHANGED <<idx, out, sinkCalls>>
          ELSE /\ out' = [out EXCEPT ![c] = @ \o Rule(c, L[k])]
               /\ sinkCalls' = sinkCalls \o Rule(c, L[k])
               /\ idx' = [idx EXCEPT ![c] = k]
               /\ future' = [future EXCEPT ![c] =
                     IF k = Len(L) THEN "done" ELSE "running"]
    /\ UNCHANGED <<inputVars, metric_queries, requests, batched, pc, collected,
                   cur, pos, results, exc, dbVars, sinkRaised,
                   batchOpps, streamVars>>

\* one step of scanner c in its worker: the listing call and the first
\* instance, or the next instance; the future completes after the last
ScannerStep(c) ==
    /\ future[c] = "running"
    /\ c \in NeedsMetrics => (batched[c] \/ ListingFault(c))
    /\ LET L == Listing(c)
           k == idx[c] + 1
       IN IF faults[c].kind \in {"ClientError", "Exception"} /\ faults[c].at = k
          THEN /\ future' = [future EXCEPT ![c] =
                     IF faults[c].kind = "ClientError" THEN "done" ELSE "raised"]
               /\ UNCHANGED <<idx, out>>
          ELSE IF L = <<>>
          THEN /\ future' = [future EXCEPT ![c] = "done"]
               /\ UNCHANGED <<idx, out>>
          ELSE /\ out' = [out EXCEPT ![c] = @ \o Rule(c, L[k])]
               /\ idx' = [idx EXCEPT ![c] = k]
               /\ future' = [future EXCEPT ![c] =
                     IF k = Len(L) THEN "done" ELSE "running"]
    /\ UNCHANGED <<inputVars, metric_queries, requests, batched, pc, collected,
                   cur, pos, results, exc, dbVars, sinkCalls, sinkRaised,
                   batchOpps, streamVars>>

\* --------------------------------------------------------- scan_account
\* mutant: future.result() is not guarded and the exception leaves scan_account
BatchOnRaisedPropagates(c) ==
    /\ exc' = <<Exc("scanner", {})>>
    /\ pc' = "done"
    /\ UNCHANGED <<collected, results>>

\* what scan_account does with a future whose result() raised
BatchOnRaised(c) ==
    /\ collected' = collected \cup {c}
    /\ UNCHANGED <<pc, results, exc>>

\* one iteration of `for future in as_completed(futures)`
BatchCollect ==
    /\ pc = "batch_collect"
    /\ \E c \in Categories \ collected :
         /\ future[c] \in {"done", "raised"}
         /\ IF future[c] = "done"
            THEN /\ results' = [results EXCEPT !.opportunities = @ \o out[c]]
                 /\ collected' = collected \cup {c}
                 /\ UNCHANGED <<pc, exc>>
            ELSE BatchOnRaised(c)
    /\ UNCHANGED <<inputVars, workerVars, cur, pos, dbVars, sinkCalls,
                   sinkRaised, batchOpps, streamVars>>

\* mutant: scan_account returns after the first future it collected
BatchReturnWithoutWaiting ==
    /\ pc = "batch_collect"
    /\ collected # {}
    /\ results' = WithTotals(results.opportunities)
    /\ pc' = "batch_returned"
    /\ UNCHANGED <<inputVars, workerVars, collected, cur, pos, exc, dbVars,
                   sinkCalls, sinkRaised, batchOpps, streamVars>>

\* the pool is left, the totals are computed and `results` is returned
BatchReturn ==
    /\ pc = "batch_collect"
    /\ collected = Categories
    /\ results' = WithTotals(results.opportunities)
    /\ pc' = "batch_returned"
    /\ UNCHANGED <<inputVars, workerVars, collected, cur, pos, exc, dbVars,
                   sinkCalls, sinkRaised, batchOpps, streamVars>>

\* the caller keeps the batch outcome and calls scan_account_progressive on
\* the same scanner: a fresh pool, the same account
StartProgressive ==
    /\ pc = "batch_returned"
    /\ batchOpps' = SeqToBag(results.opportunities)
    /\ results' = EmptyResults
    /\ future' = Submitted(Categories)
    /\ idx' = [c \in Categories |-> 0]
    /\ out' = [c \in Categories |-> <<>>]
    /\ metric_queries' = [c \in Categories |-> <<>>]
    /\ requests' = [c \in Categories |-> <<>>]
    /\ batched' = [c \in Categories |-> FALSE]
    /\ collected' = {}
    /\ pc' = "prog_collect"
    /\ UNCHANGED <<inputVars, cur, pos, exc, dbVars, sinkCalls, sinkRaised,
                   streamVars>>

\* ---------------------------------------------- save_opportunity_callback
\* the row is added and committed
SinkOk(opp) ==
    /\ sinkCalls' = Append(sinkCalls, opp)
    /\ rows' = Append(rows, opp)
    /\ UNCHANGED sinkRaised

\* session.commit() raises: nothing is stored
SinkRaises(opp) ==
    /\ Len(sinkRaised) < MaxSinkFailures
    /\ sinkCalls' = Append(sinkCalls, opp)
    /\ sinkRaised' = Append(sinkRaised, opp)
    /\ UNCHANGED rows

\* --------------------------------------------- scan_account_progressive
\* one iteration of `for future in as_completed(futures)` up to the inner loop
ProgCollect ==
    /\ pc = "prog_collect"
    /\ \E c \in Categories \ collected :
         /\ future[c] \in {"done", "raised"}
         /\ IF future[c] = "done" /\ out[c] # <<>>
            THEN /\ cur' = c
                 /\ pos' = 1
                 /\ pc' = "prog_save"
                 /\ UNCHANGED collected
            ELSE /\ collected' = collected \cup {c}
                 /\ UNCHANGED <<cur, pos, pc>>
    /\ UNCHANGED <<inputVars, workerVars, results, exc, dbVars, sinkCalls,
                   sinkRaised, batchOpps, streamVars>>

\* the future being saved is finished with
ProgNextFuture ==
    /\ collected' = collected \cup {cur}
    /\ cur' = "none"
    /\ pos' = 0
    /\ pc' = "prog_collect"

\* mutant: the loop over a future's opportunities ends after the first save
ProgSaveOkThenBreak ==
    /\ pc = "prog_save"
    /\ LET opp == out[cur][pos]
       IN /\ SinkOk(opp)
          /\ results' = [results EXCEPT !.opportunities = Append(@, opp)]
    /\ ProgNextFuture
    /\ UNCHANGED <<inputVars, workerVars, exc, status, error_message,
                   total_potential_savings, batchOpps, streamVars>>

\* mutant: the scan is marked completed as soon as an opportunity is saved
ProgSaveOkMarksCompleted ==
    /\ pc = "prog_save"
    /\ LET opp == out[cur][pos]
       IN /\ SinkOk(opp)
          /\ results' = [results EXCEPT !.opportunities = Append(@, opp)]
    /\ status' = "completed"
    /\ IF pos = Len(out[cur])
       THEN ProgNextFuture
       ELSE /\ pos' = pos + 1
            /\ UNCHANGED <<cur, collected, pc>>
    /\ UNCHANGED <<inputVars, workerVars, exc, error_message,
                   total_potential_savings, batchOpps, streamVars>>

\* save_callback(opp) returns; results['opportunities'].append(opp)
ProgSaveOk ==
    /\ pc = "prog_save"
    /\ LET opp == out[cur][pos]
       IN /\ SinkOk(opp)
          /\ results' = [results EXCEPT !.opportunities = Append(@, opp)]
    /\ IF pos = Len(out[cur])
       THEN ProgNextFuture
       ELSE /\ pos' = pos + 1
            /\ UNCHANGED <<cur, collected, pc>>
    /\ UNCHANGED <<inputVars, workerVars, exc, status, error_message,
                   total_potential_savings, batchOpps, streamVars>>

\* save_callback(opp) raises: the except clause of the outer loop takes over
ProgSaveRaises ==
    /\ pc = "prog_save"
    /\ SinkRaises(out[cur][pos])
    /\ ProgNextFuture
    /\ UNCHANGED <<inputVars, workerVars, results, exc, status, error_message,
                   total_potential_savings, batchOpps, streamVars>>

\* the pool is left, the totals are computed and `results` is returned
ProgReturn ==
    /\ pc = "prog_collect"
    /\ collected = Categories
    /\ results' = WithTotals(results.opportunities)
    /\ pc' = IF caller = "run_scan" THEN "commit" ELSE "prog_returned"
    /\ UNCHANGED <<inputVars, workerVars, collected, cur, pos, exc, dbVars,
                   sinkCalls, sinkRaised, batchOpps, streamVars>>

\* ------------------------------------------------- run_scan, quick path
\* scanner._scan_reserved_instances() returns in the task's own thread
QuickScanDone ==
    /\ pc = "quick_scan"
    /\ future["ri_sp"] = "done"
    /\ pos' = 1
    /\ pc' = "quick_save"
    /\ UNCHANGED <<inputVars, workerVars, collected, cur, results, exc, dbVars,
                   sinkCalls, sinkRaised, batchOpps, streamVars>>

\* scanner._scan_reserved_instances() raises into run_scan
QuickScanRaised ==
    /\ pc = "quick_scan"
    /\ future["ri_sp"] = "raised"
    /\ \E m \in Messages("scanner") : exc' = <<Exc("scanner", m)>>
    /\ pc' = "except"
    /\ UNCHANGED <<inputVars, workerVars, collected, cur, pos, results, dbVars,
                   sinkCalls, sinkRaised, batchOpps, streamVars>>

\* for opp_data in opportunities: save_opportunity_callback(opp_data)
QuickSaveOk ==
    /\ pc = "quick_save"
    /\ pos <= Len(out["ri_sp"])
    /\ SinkOk(out["ri_sp"][pos])
    /\ pos' = pos + 1
    /\ UNCHANGED <<inputVars, workerVars, pc, collected, cur, results, exc,
                   status, error_message, total_potential_savings, batchOpps,
                   streamVars>>

\* the callback raises into run_scan
QuickSaveRaises ==
    /\ pc = "quick_save"
    /\ pos <= Len(out["ri_sp"])
    /\ SinkRaises(out["ri_sp"][pos])
    /\ \E m \in Messages("sink") : exc' = <<Exc("sink", m)>>
    /\ pc' = "except"
    /\ UNCHANGED <<inputVars, workerVars, collected, cur, pos, results,
                   status, error_message, total_potential_savings, batchOpps,
                   streamVars>>

\* the totals and the dict `results` of the quick path
QuickTotals ==
    /\ pc = "quick_save"
    /\ pos > Len(out["ri_sp"])
    /\ results' = WithTotals(out["ri_sp"])
    /\ pc' = "commit"
    /\ UNCHANGED <<inputVars, workerVars, collected, cur, pos, exc, dbVars,
                   sinkCalls, sinkRaised, batchOpps, streamVars>>

\* ------------------------------------------------- run_scan, completion
\* "Mark scan as completed" up to session.commit()
MarkCompleted ==
    /\ pc = "commit"
    /\ status' = "completed"
    /\ total_potential_savings' = results.total_savings_annual
    /\ pc' = IF notification_email THEN "notify" ELSE "done"
    /\ UNCHANGED <<inputVars, workerVars, collected, cur, pos, results, exc,
                   error_message, rows, sinkCalls, sinkRaised, batchOpps,
                   streamVars>>

\* json.dumps(results) or session.commit() raises: nothing is committed
CommitRaises ==
    /\ pc = "commit"
    /\ \E m \in Messages("commit") : exc' = <<Exc("commit", m)>>
    /\ pc' = "except"
    /\ UNCHANGED <<inputVars, workerVars, collected, cur, pos, results, dbVars,
                   sinkCalls, sinkRaised, batchOpps, streamVars>>

\* the opportunities are counted and send_scan_completion_email returns
NotifyOk ==
    /\ pc = "notify"
    /\ pc' = "done"
    /\ UNCHANGED <<inputVars, workerVars, collected, cur, pos, results, exc,
                   dbVars, sinkCalls, sinkRaised, batchOpps, streamVars>>

\* the count query or send_scan_completion_email (int(SMTP_PORT)) raises
NotifyRaises ==
    /\ pc = "notify"
    /\ \E m \in Messages("notify") : exc' = <<Exc("notify", m)>>
    /\ pc' = "except"
    /\ UNCHANGED <<inputVars, workerVars, collected, cur, pos, results, dbVars,
                   sinkCalls, sinkRaised, batchOpps, streamVars>>

\* error_lower contains the pattern
Has(msg, pattern) == pattern \in msg

\* mutant: the branch of invalid_credentials is missing
parse_aws_error_without_invalid(msg) ==
    IF Has(msg, "unable to locate credentials") \/ Has(msg, "invalid role")
    THEN "role_assumption_failed"
    ELSE IF Has(msg, "access denied") \/ Has(msg, "unauthorized")
            \/ Has(msg, "forbidden")
    THEN "permissions_error"
    ELSE IF Has(msg, "not found") /\ Has(msg, "account")
    THEN "account_not_found"
    ELSE IF Has(msg, "not found") /\ Has(msg, "scan")
    THEN "scan_not_found"
    ELSE "scan_failed"

parse_aws_error(msg) ==
    IF Has(msg, "unable to locate credentials") \/ Has(msg, "invalid role")
    THEN "role_assumption_failed"
    ELSE IF Has(msg, "access denied") \/ Has(msg, "unauthorized")
            \/ Has(msg, "forbidden")
    THEN "permissions_error"
    ELSE IF Has(msg, "invalid") /\ (Has(msg, "arn") \/ Has(msg, "role"))
    THEN "invalid_credentials"
    ELSE IF Has(msg, "not found") /\ Has(msg, "account")
    THEN "account_not_found"
    ELSE IF Has(msg, "not found") /\ Has(msg, "scan")
    THEN "scan_not_found"
    ELSE "scan_failed"

\* title and message of every entry; its lists `details` and `solutions` are
\* held as the key of the entry they belong to
ERROR_MESSAGES ==
    [t \in {"role_assumption_failed", "permissions_error", "scan_failed",
            "invalid_credentials", "account_not_found", "scan_not_found"} |->
        [title |-> CASE t = "role_assumption_failed" -> "AWS Connection Failed"
                     [] t = "permissions_error"      -> "Insufficient Permissions"
                     [] t = "scan_failed"            -> "Scan Failed"
                     [] t = "invalid_credentials"    -> "Invalid Connection Details"
                     [] t = "account_not_found"      -> "Account Not Found"
                     [] t = "scan_not_found"         -> "Scan Not Found",
         message |-> CASE t = "role_assumption_failed" ->
                            "We couldn't connect to your AWS account. This usually means:"
                       [] t = "permissions_error" ->
                            "The IAM role doesn't have the required read-only permissions."
                       [] t = "scan_failed" ->
                            "The scan encountered an error while analyzing your AWS account."
                       [] t = "invalid_credentials" ->
                            "The AWS connection details provided are invalid."
                       [] t = "account_not_found" ->
                            "The requested AWS account connection could not be found."
                       [] t = "scan_not_found" ->
                            "The requested scan could not be found.",
         details |-> t,
         solutions |-> t]]

get_user_friendly_error(error_type, original_error) ==
    LET error_info ==
            IF error_type \in DOMAIN ERROR_MESSAGES
            THEN ERROR_MESSAGES[error_type]
            ELSE [title |-> "An Error Occurred",
                  message |-> "Something went wrong. Please try again.",
                  details |-> "", solutions |-> ""]
    IN [error_type |-> error_type,
        title |-> error_info.title,
        message |-> error_info.message,
        details |-> error_info.details,
        solutions |-> error_info.solutions,
        technical_details |-> original_error]

\* the except clause of run_scan
MarkFailed ==
    /\ pc = "except"
    /\ status' = "failed"
    /\ error_message' =
         <<get_user_friendly_error(parse_aws_error(exc[1].msg), exc[1].msg)>>
    /\ pc' = "done"
    /\ UNCHANGED <<inputVars, workerVars, collected, cur, pos, results, exc,
                   total_potential_savings, rows, sinkCalls, sinkRaised,
                   batchOpps, streamVars>>

\* session.get or session.commit raises in the except clause, on the session
\* whose commit has just raised: the exception leaves run_scan through the
\* finally clause and the status is not written
MarkFailedRaises ==
    /\ pc = "except"
    /\ exc[1].origin \in {"commit", "sink"}
    /\ pc' = "done"
    /\ UNCHANGED <<inputVars, workerVars, collected, cur, pos, results, exc,
                   dbVars, sinkCalls, sinkRaised, batchOpps, streamVars>>

\* ------------------------------------------------- scan_progress_stream
Terminal == {"completed", "failed"}

Min(a, b) == IF a < b THEN a ELSE b

Progress(st, opportunity_count) ==
    IF st = "completed" THEN 100
    ELSE IF st = "failed" THEN 0
    ELSE Min(opportunity_count * 5, 95)

\* opportunities[-5:], each reduced to the fields the stream sends
recent_opportunities(opportunities) ==
    LET n == Len(opportunities)
        last == SubSeq(opportunities, IF n > 5 THEN n - 4 ELSE 1, n)
    IN [j \in 1..Len(last) |->
          [type |-> last[j].opportunity_type,
           resource_id |-> last[j].resource_id,
           savings_annual |-> last[j].potential_savings_annual]]

\* the initial snapshot has no recent_opportunities: it is sent as <<>>
Snapshot(st, progress, count, total, recent) ==
    [status |-> st, progress |-> progress, opportunities_found |-> count,
     total_savings |-> total, recent_opportunities |-> recent]

\* the scan is found and the initial status is streamed
StreamOpen ==
    /\ caller = "run_scan"
    /\ streamPc = "closed"
    /\ snapshot' = <<Snapshot(status, 0, 0, 0, <<>>)>>
    /\ seen_status' = status
    /\ last_count' = 0
    /\ last_status' = status
    /\ streamPc' = "refresh"
    /\ UNCHANGED <<inputVars, workerVars, pc, collected, cur, pos, results, exc,
                   dbVars, sinkCalls, sinkRaised, batchOpps>>

\* session.refresh(scan_result)
StreamRefresh ==
    /\ streamPc = "refresh"
    /\ seen_status' = status
    /\ streamPc' = "query"
    /\ UNCHANGED <<inputVars, workerVars, pc, collected, cur, pos, results, exc,
                   dbVars, sinkCalls, sinkRaised, batchOpps, last_count,
                   last_status, snapshot>>

\* mutant: only a change of the status is reported
SendUpdateOnStatusOnly(opportunity_count, progress) ==
    \/ seen_status # last_status
    \/ progress = 100

\* "Send update if something changed"
SendUpdate(opportunity_count, progress) ==
    \/ opportunity_count # last_count
    \/ seen_status # last_status
    \/ progress = 100

\* the opportunities are read, and the rest of the loop body up to the sleep
StreamQuery ==
    /\ streamPc = "query"
    /\ LET opportunity_count == Len(rows)
           total_savings == SumAnnual(rows)
           progress == Progress(seen_status, opportunity_count)
       IN IF SendUpdate(opportunity_count, progress)
          THEN /\ snapshot' = <<Snapshot(seen_status, progress,
                                         opportunity_count, total_savings,
                                         recent_opportunities(rows))>>
               /\ last_count' = opportunity_count
               /\ last_status' = seen_status
               /\ streamPc' = IF seen_status \in Terminal
                              THEN "stopped" ELSE "sleep"
          ELSE /\ streamPc' = "sleep"
               /\ UNCHANGED <<snapshot, last_count, last_status>>
    /\ UNCHANGED <<inputVars, workerVars, pc, collected, cur, pos, results, exc,
                   dbVars, sinkCalls, sinkRaised, batchOpps, seen_status>>

\* await asyncio.sleep(1) returns
StreamSleep ==
    /\ streamPc = "sleep"
    /\ streamPc' = "refresh"
    /\ UNCHANGED <<inputVars, workerVars, pc, collected, cur, pos, results, exc,
                   dbVars, sinkCalls, sinkRaised, batchOpps, seen_status,
                   last_count, last_status, snapshot>>

\* -------------------------------------------------------- specifications
Scanners == \E c \in Categories : ScannerStep(c) \/ MetricChunk(c)

\* the steps of the thread that runs run_scan
RunScanThread ==
    \/ AssumeRoleOk
    \/ AssumeRoleFails
    \/ ProgCollect
    \/ ProgSaveOk
    \/ ProgSaveRaises
    \/ ProgReturn
    \/ QuickScanDone
    \/ QuickScanRaised
    \/ QuickSaveOk
    \/ QuickSaveRaises
    \/ QuickTotals
    \/ MarkCompleted
    \/ CommitRaises
    \/ NotifyOk
    \/ NotifyRaises
    \/ MarkFailed
    \/ MarkFailedRaises

\* the steps of a caller that uses scan_account
DirectCaller ==
    \/ BatchCollect
    \/ BatchReturn
    \/ StartProgressive

StreamLoop ==
    \/ StreamOpen
    \/ StreamRefresh
    \/ StreamQuery
    \/ StreamSleep

\* the scanner, called by run_scan or directly
Next ==
    \/ RunScanThread
    \/ Scanners
    \/ DirectCaller

Spec == Init /\ [][Next]_vars

\* run_scan observed by one progress stream
StreamMaxInstances == 1

StreamInit ==
    /\ Init
    /\ caller = "run_scan"
    /\ Len(instances) <= StreamMaxInstances

StreamNext ==
    \/ RunScanThread
    \/ Scanners
    \/ StreamLoop

\* every thread and the stream's generator keep being scheduled
Fairness ==
    /\ WF_vars(RunScanThread)
    /\ \A c \in Categories : WF_vars(ScannerStep(c) \/ MetricChunk(c))
    /\ WF_vars(StreamRefresh \/ StreamQuery \/ StreamSleep)

StreamSpec == StreamInit /\ [][StreamNext]_vars /\ Fairness

\* the four scan functions applied to one instance of any type
ScannerFamilies == {"t3", "m5", "m5a", "t4g", "m7g"}

ScannerTypes ==
    {<<f, sz>> : f \in ScannerFamilies,
                 sz \in {size_order[i] : i \in 1..Len(size_order)} \cup {"metal"}}
    \cup {<<"m5">>}

ScannerInstances ==
    {Instance(1, t, a, "us-east-1", "running", cpu, mem, net) :
        t \in ScannerTypes, a \in {"x86_64", "arm64"},
        cpu \in {<<>>, <<0>>, <<2, 4>>, <<10>>, <<25>>},
        mem \in {<<>>, <<0>>, <<10>>, <<25>>},
        net \in {<<>>, <<0>>, <<500000>>, <<1000000>>}}
    \cup {Instance(1, t, a, "us-east-1", "stopped", <<2, 4>>, <<10>>, <<500000>>) :
            t \in ScannerTypes, a \in {"x86_64", "arm64"}}

\* scan_account has submitted the scan functions
ScannerInit ==
    /\ instances \in {<<i>> : i \in ScannerInstances}
    /\ faults = [c \in Categories |-> NoFault]
    /\ caller = "direct"
    /\ scan_type = "full"
    /\ notification_email = FALSE
    /\ future = Submitted(Categories)
    /\ idx = [c \in Categories |-> 0]
    /\ out = [c \in Categories |-> <<>>]
    /\ metric_queries = [c \in Categories |-> <<>>]
    /\ requests = [c \in Categories |-> <<>>]
    /\ batched = [c \in Categories |-> FALSE]
    /\ pc = "batch_collect"
    /\ collected = {}
    /\ cur = "none"
    /\ pos = 0
    /\ results = EmptyResults
    /\ exc = <<>>
    /\ status = "running"
    /\ error_message = <<>>
    /\ total_potential_savings = 0
    /\ rows = <<>>
    /\ sinkCalls = <<>>
    /\ sinkRaised = <<>>
    /\ batchOpps = EmptyBag
    /\ streamPc = "closed"
    /\ seen_status = "none"
    /\ last_count = 0
    /\ last_status = "none"
    /\ snapshot = <<>>

ScannerNext == Scanners

ScannerSpec == ScannerInit /\ [][ScannerNext]_vars

\* the four scan functions on listings that mix two regions
OrderMaxInstances == 3

\* an instance every rule fires on and one no rule fires on, in either region
OrderKinds ==
    {[InstanceType |-> <<"m5", "large">>, Architecture |-> "x86_64",
      region |-> r, cpu |-> <<2, 4>>, mem |-> <<10>>, net |-> <<500000>>] :
        r \in {"us-east-1", "us-west-2"}}
    \cup
    {[InstanceType |-> <<"t4g", "nano">>, Architecture |-> "arm64",
      region |-> r, cpu |-> <<>>, mem |-> <<>>, net |-> <<>>] :
        r \in {"us-east-1", "us-west-2"}}

OrderListings ==
    UNION { { [i \in 1..n |-> Instance(i, k[i].InstanceType, k[i].Architecture,
                                       k[i].region, "running",
                                       k[i].cpu, k[i].mem, k[i].net)]
              : k \in [1..n -> OrderKinds] }
            : n \in 0..OrderMaxInstances }

\* scan_account has submitted the scan functions
OrderInit ==
    /\ instances \in OrderListings
    /\ faults = [c \in Categories |-> NoFault]
    /\ caller = "direct"
    /\ scan_type = "full"
    /\ notification_email = FALSE
    /\ future = Submitted(Categories)
    /\ idx = [c \in Categories |-> 0]
    /\ out = [c \in Categories |-> <<>>]
    /\ metric_queries = [c \in Categories |-> <<>>]
    /\ requests = [c \in Categories |-> <<>>]
    /\ batched = [c \in Categories |-> FALSE]
    /\ pc = "batch_collect"
    /\ collected = {}
    /\ cur = "none"
    /\ pos = 0
    /\ results = EmptyResults
    /\ exc = <<>>
    /\ status = "running"
    /\ error_message = <<>>
    /\ total_potential_savings = 0
    /\ rows = <<>>
    /\ sinkCalls = <<>>
    /\ sinkRaised = <<>>
    /\ batchOpps = EmptyBag
    /\ streamPc = "closed"
    /\ seen_status = "none"
    /\ last_count = 0
    /\ last_status = "none"
    /\ snapshot = <<>>

OrderNext == Scanners

OrderSpec == OrderInit /\ [][OrderNext]_vars

\* the Metric Batcher on listings that need up to MaxChunks requests
MaxChunks == 3

\* numbers of running instances: none, one, and both sides of every multiple
\* of batch_size queries (two queries per instance)
BatcherSizes ==
    {0, 1} \cup {k * (batch_size \div 2) + d : k \in 1..(MaxChunks - 1), d \in {0, 1}}

\* which instances the remote holds datapoints for
BatcherPatterns == {"all", "none", "alternate", "cpu_only", "last"}

\* the i-th instance of a listing of n; its datapoints differ from its
\* neighbours' and have whole averages
BatcherInstance(i, n, p) ==
    LET has(m) == CASE p = "all"       -> TRUE
                    [] p = "none"      -> FALSE
                    [] p = "alternate" -> i % 2 = 0
                    [] p = "cpu_only"  -> m = "cpu"
                    [] p = "last"      -> i = n
    IN Instance(i, <<"t3", "large">>, "x86_64", "us-east-1", "running",
                IF has("cpu") THEN <<i % 7, (i % 7) + 2>> ELSE <<>>,
                IF has("mem") THEN <<10 + (i % 3)>> ELSE <<>>,
                IF has("net") THEN <<i * 1000>> ELSE <<>>)

\* the get_metric_data request that raises, if any
ChunkFaults(n) ==
    {NoFault} \cup {[kind |-> "ChunkError", at |-> k] :
                      k \in {k \in 1..MaxChunks : (k - 1) * batch_size < 2 * n}}

\* _scan_rightsizing and _scan_idle_resources have listed the instances
BatcherInit ==
    /\ \E n \in BatcherSizes, p \in BatcherPatterns :
          /\ instances = [i \in 1..n |-> BatcherInstance(i, n, p)]
          /\ faults \in {f \in [Categories -> ChunkFaults(n)] :
                            \A c \in Categories \ NeedsMetrics : f[c] = NoFault}
    /\ caller = "direct"
    /\ scan_type = "full"
    /\ notification_email = FALSE
    /\ future = Submitted(NeedsMetrics)
    /\ idx = [c \in Categories |-> 0]
    /\ out = [c \in Categories |-> <<>>]
    /\ metric_queries = [c \in Categories |-> <<>>]
    /\ requests = [c \in Categories |-> <<>>]
    /\ batched = [c \in Categories |-> FALSE]
    /\ pc = "batch_collect"
    /\ collected = {}
    /\ cur = "none"
    /\ pos = 0
    /\ results = EmptyResults
    /\ exc = <<>>
    /\ status = "running"
    /\ error_message = <<>>
    /\ total_potential_savings = 0
    /\ rows = <<>>
    /\ sinkCalls = <<>>
    /\ sinkRaised = <<>>
    /\ batchOpps = EmptyBag
    /\ streamPc = "closed"
    /\ seen_status = "none"
    /\ last_count = 0
    /\ last_status = "none"
    /\ snapshot = <<>>

BatcherNext == \E c \in NeedsMetrics : MetricChunk(c)

BatcherSpec == BatcherInit /\ [][BatcherNext]_vars

\* ================================================================ claims
Range(seq) == {seq[i] : i \in 1..Len(seq)}

OfType(opps, c) == SelectSeq(opps, LAMBDA o : o.opportunity_type = c)

RECURSIVE Emitted(_, _)
\* what scanner c appends over the instances of L, in order
Emitted(c, L) ==
    IF L = <<>> THEN <<>> ELSE Rule(c, Head(L)) \o Emitted(c, Tail(L))

\* what scanner c returns when it runs to its end under the fault plan
Returned(c) ==
    IF faults[c].kind = "ClientError"
    THEN Emitted(c, SubSeq(Listing(c), 1, faults[c].at - 1))
    ELSE Emitted(c, Listing(c))

\* scan_account_progressive has returned its ScanOutcome
ProgressiveReturned ==
    \/ pc = "prog_returned"
    \/ pc = "commit" /\ scan_type = "full"

\* some ScanOutcome has been returned or built
OutcomeReturned ==
    \/ pc \in {"batch_returned", "prog_returned", "commit"}

\* C1: the status starts at running, moves only to completed or failed, and
\* once it is completed or failed it never changes again, whatever a step
\* after the commit does.
C1_StatusIsTerminal ==
    [][/\ status = "running" => status' \in {"running", "completed", "failed"}
       /\ status \in Terminal => status' = status]_vars

\* C2: once the status of a scan is terminal, a progress stream that is open
\* on it (opened before or after that moment) eventually emits a snapshot
\* carrying a terminal status and stops polling.
C2_StreamStopsOnTerminal ==
    (streamPc # "closed" /\ status \in Terminal)
        ~> (streamPc = "stopped" /\ snapshot # <<>>
            /\ snapshot[1].status \in Terminal)

\* C3: when the role assumption fails no scanner runs, no ScanOutcome is
\* produced and nothing is saved; the status is never completed, and when
\* run_scan ends it is failed with the error message populated from the
\* exception.
C3_AuthFailureFailsScan ==
    (exc # <<>> /\ exc[1].origin = "assume_role") =>
        /\ \A c \in Categories : future[c] = "none" /\ out[c] = <<>>
        /\ results = EmptyResults
        /\ rows = <<>> /\ sinkCalls = <<>>
        /\ status \in {"running", "failed"}
        /\ (caller = "run_scan" /\ pc = "done") =>
              /\ status = "failed"
              /\ error_message # <<>>
              /\ error_message[1].technical_details = exc[1].msg

C3_Witness ==
    /\ exc # <<>> /\ exc[1].origin = "assume_role"
    /\ pc = "done" /\ status = "failed" /\ error_message # <<>>

C5_ScannerNeverFailsScan ==
    status = "failed" => (exc # <<>> /\ exc[1].origin # "scanner")

C7_SinkAsSoonAsProduced ==
    /\ pc = "prog_save" => status = "running"
    /\ pc \in {"prog_collect", "prog_save"} =>
          \A c \in Categories :
             future[c] = "running" => Range(out[c]) \subseteq Range(sinkCalls)

\* C8: when the sink raised for one opportunity, every opportunity of the
\* scanners that returned is still handed to the sink by the time
\* scan_account_progressive returns.
C8_SinkFailureSkipsNothing ==
    ProgressiveReturned =>
        \A c \in Categories :
           future[c] = "done" => Range(out[c]) \subseteq Range(sinkCalls)

\* C9: in every ScanOutcome the monthly total is the sum of the monthly
\* savings and the annual total is the sum of the annual savings of the
\* opportunities listed in it.
C9_TotalsAreSums ==
    OutcomeReturned =>
        /\ results.total_savings_monthly = SumMonthly(results.opportunities)
        /\ results.total_savings_annual = SumAnnual(results.opportunities)

\* C10: every emitted opportunity has potential_savings_annual equal to
\* round(potential_savings_monthly * 12, 2), the monthly value being the one
\* stored in the opportunity (amounts are in cents, so the rounding is exact).
C10_AnnualIsTwelveMonthly ==
    \A c \in Categories : \A o \in Range(out[c]) :
        o.potential_savings_annual = o.potential_savings_monthly * 12

\* ------------------------------------------------------ the scan rules
\* the opportunities scanner c holds for the instance
OppsFor(c, inst) == SelectSeq(out[c], LAMBDA o : o.resource_id = inst.InstanceId)

\* the remote holds data for the metric, and its average is below the limit
KnownBelow(values, limit) == values # <<>> /\ avg_value(values) < limit

\* size rate x 730 hours, x 1.2 for the premium families, 0.08 $/h for a size
\* that is not in the table (in 1e-5 $)
TableCost(type) ==
    LET rate == IF type[2] \in DOMAIN pricing_map THEN pricing_map[type[2]] ELSE 8000
    IN IF type[1] \in PremiumFamilies THEN ((rate * 12) \div 10) * 730 ELSE rate * 730

\* EC2 instance types have the form family.size
WellFormed(inst) == Len(inst.InstanceType) = 2

\* C11: when the Idle scanner has returned, it holds exactly one opportunity
\* for every running instance whose CPU average is known and below 5 and
\* whose inbound network average is known and below 1,000,000 (an average of
\* exactly 0 included), and none for any other instance.
C11_IdleRule ==
    future["idle"] = "done" =>
        \A i \in 1..Len(instances) :
            LET inst == instances[i]
            IN Len(OppsFor("idle", inst)) =
                 IF /\ inst.State = "running"
                    /\ KnownBelow(inst.cpu, 5)
                    /\ KnownBelow(inst.net, 1000000)
                 THEN 1 ELSE 0

\* C12: when the Rightsizing scanner has returned, it holds exactly one
\* opportunity for a running instance iff its CPU and memory averages are
\* known and below 20 (exactly 0 included), its size has a predecessor in the
\* ladder and the cost difference to that size exceeds 5; the opportunity
\* recommends the same family one step down and saves the cost difference.
C12_RightsizingRule ==
    future["rightsizing"] = "done" =>
        \A i \in 1..Len(instances) :
            LET inst == instances[i]
                type == inst.InstanceType
                at == IF WellFormed(inst) THEN IndexOf(size_order, type[2]) ELSE 0
                smaller == <<type[1], size_order[at - 1]>>
                fires == /\ inst.State = "running"
                         /\ KnownBelow(inst.cpu, 20)
                         /\ KnownBelow(inst.mem, 20)
                         /\ at > 1
                         /\ TableCost(type) - TableCost(smaller) > 500000
                opps == OppsFor("rightsizing", inst)
            IN /\ Len(opps) = IF fires THEN 1 ELSE 0
               /\ \A j \in 1..Len(opps) :
                     /\ opps[j].recommended = smaller
                     /\ opps[j].potential_savings_monthly =
                           round2(TableCost(type) - TableCost(smaller))

\* C13: when the Reservation scanner has returned, it holds exactly one
\* opportunity for every running instance whose monthly savings (cost minus
\* 0.65 x cost, the cost taken from the price table) exceed 10 and none for
\* any other instance; an opportunity's monthly savings are those savings
\* rounded to cents and its savings percentage is 35.
C13_ReservationRule ==
    future["ri_sp"] = "done" =>
        \A i \in 1..Len(instances) :
            LET inst == instances[i]
                cost == TableCost(inst.InstanceType)
                savings == cost - (cost \div 100) * 65
                opps == OppsFor("ri_sp", inst)
            IN WellFormed(inst) =>
                 /\ Len(opps) =
                      IF inst.State = "running" /\ savings > 1000000 THEN 1 ELSE 0
                 /\ \A j \in 1..Len(opps) :
                       /\ opps[j].potential_savings_monthly = round2(savings)
                       /\ opps[j].savings_percentage = 350

\* a running instance of a premium family was reported
C13_Witness ==
    /\ future["ri_sp"] = "done"
    /\ instances[1].InstanceType = <<"m5", "large">>
    /\ instances[1].State = "running"
    /\ Len(out["ri_sp"]) = 1
    /\ out["ri_sp"][1].potential_savings_monthly = 2453

\* C14: when the Architecture-migration scanner has returned, it holds exactly
\* one opportunity for a running instance iff its family is a key of the
\* legacy-to-modern mapping and its architecture is not arm64; the
\* opportunity saves 20% of the current cost (to the cent), has savings
\* percentage 20, risk medium, horizon 1-month, and recommends the mapped
\* family with the same size.
C14_GravitonRule ==
    future["graviton"] = "done" =>
        \A i \in 1..Len(instances) :
            LET inst == instances[i]
                type == inst.InstanceType
                opps == OppsFor("graviton", inst)
            IN WellFormed(inst) =>
                 /\ Len(opps) =
                      IF /\ inst.State = "running"
                         /\ type[1] \in DOMAIN graviton_families
                         /\ inst.Architecture # "arm64"
                      THEN 1 ELSE 0
                 /\ \A j \in 1..Len(opps) :
                       /\ opps[j].potential_savings_monthly =
                             round2((TableCost(type) \div 100) * 20)
                       /\ opps[j].current_cost_monthly = round2(TableCost(type))
                       /\ opps[j].savings_percentage = 200
                       /\ opps[j].risk_level = "medium"
                       /\ opps[j].expected_savings_timeline = "1-month"
                       /\ opps[j].recommended = <<graviton_families[type[1]], type[2]>>

\* a running x86 instance of a mapped family was reported
C14_Witness ==
    /\ future["graviton"] = "done"
    /\ instances[1].State = "running"
    /\ instances[1].InstanceType = <<"m5a", "xlarge">>
    /\ instances[1].Architecture = "x86_64"
    /\ Len(out["graviton"]) = 1
    /\ out["graviton"][1].recommended = <<"m7g", "xlarge">>

\* C15: every opportunity the Idle scanner emits has savings percentage 100
\* and a current monthly cost equal to its monthly savings.
C15_IdleSavesEverything ==
    \A o \in Range(out["idle"]) :
        /\ o.savings_percentage = 1000
        /\ o.current_cost_monthly = o.potential_savings_monthly

C15_Witness ==
    /\ future["idle"] = "done"
    /\ Len(out["idle"]) = 1
    /\ out["idle"][1].current_cost_monthly > 0

\* C16: for an account whose only running instance is of type t3.large with
\* a CPU average of 3 and an inbound network average of 500,000, the Idle
\* scanner returns exactly one opportunity, with monthly savings 58.40.
C16_IdleScenario ==
    (/\ future["idle"] = "done"
     /\ Len(instances) = 1
     /\ instances[1].State = "running"
     /\ instances[1].InstanceType = <<"t3", "large">>
     /\ instances[1].cpu # <<>> /\ avg_value(instances[1].cpu) = 3
     /\ instances[1].net # <<>> /\ avg_value(instances[1].net) = 500000) =>
        /\ Len(out["idle"]) = 1
        /\ out["idle"][1].opportunity_type = "idle"
        /\ out["idle"][1].resource_id = instances[1].InstanceId
        /\ out["idle"][1].potential_savings_monthly = 5840

C16_Witness ==
    /\ future["idle"] = "done"
    /\ instances[1].State = "running"
    /\ instances[1].InstanceType = <<"t3", "large">>
    /\ instances[1].cpu = <<2, 4>>
    /\ instances[1].net = <<500000>>
    /\ Len(out["idle"]) = 1

\* ---------------------------------------------------- the Metric Batcher
\* the name under which a scanner looks a metric up in the batcher's result
LookupName(m) == IF m = "net" THEN "network" ELSE m

\* the (instance position, metric) pairs scanner c asks for
QueryPairs(c) ==
    {<<i, MetricTypes(c)[k]>> : i \in 1..Len(Running(instances)), k \in 1..2}

\* the queries of the r-th request of scanner c, as (position, metric) pairs
RequestPairs(c, r) ==
    {<<requests[c][r][j][2] + 1, requests[c][r][j][1]>> :
        j \in 1..Len(requests[c][r])}

RECURSIVE TotalQueries(_)
TotalQueries(reqs) ==
    IF reqs = <<>> THEN 0 ELSE Len(Head(reqs)) + TotalQueries(Tail(reqs))

\* the result holds, of the pairs in `asked`, exactly those the remote has
\* datapoints for, each under its own instance and metric with its average
HoldsExactly(c, asked) ==
    LET L == Running(instances)
        withData == {q \in asked : L[q[1]][q[2]] # <<>>}
    IN /\ DOMAIN metric_queries[c] =
            {<<L[q[1]].InstanceId, LookupName(q[2])>> : q \in withData}
       /\ \A q \in withData :
            metric_queries[c][<<L[q[1]].InstanceId, LookupName(q[2])>>] =
                SumValues(L[q[1]][q[2]]) \div Len(L[q[1]][q[2]])

PairsOfChunk(c, k) ==
    {q \in QueryPairs(c) :
        \E t \in 1..2 :
            /\ MetricTypes(c)[t] = q[2]
            /\ (2 * (q[1] - 1) + t - 1) \div 500 = k - 1}

\* C18: when one get_metric_data request failed and the Metric Batcher has
\* returned, it has still issued the requests of all ceil(N/500) chunks, its
\* result holds the data of every chunk but the failed one, and the failure
\* did not leave the batcher.
C18_ChunkFailureContinues ==
    \A c \in NeedsMetrics :
        (batched[c] /\ faults[c].kind = "ChunkError") =>
            LET N == 2 * Len(Running(instances))
            IN /\ future[c] # "raised"
               /\ Len(requests[c]) = (N + 499) \div 500
               /\ HoldsExactly(c, QueryPairs(c) \ PairsOfChunk(c, faults[c].at))

\* C19: a pair the remote has no datapoints for is absent from the batcher's
\* result and the scanner does not raise; an instance for which a metric its
\* rule requires is absent yields no Rightsizing and no Idle opportunity.
C19_AbsentIsUnknown ==
    \A c \in NeedsMetrics :
        /\ future[c] # "raised"
        /\ batched[c] =>
             \A i \in 1..Len(Running(instances)), k \in 1..2 :
                LET inst == Running(instances)[i]
                    m == MetricTypes(c)[k]
                IN inst[m] = <<>> =>
                     /\ <<inst.InstanceId, LookupName(m)>> \notin DOMAIN metric_queries[c]
                     /\ OppsFor(c, inst) = <<>>

\* both scanners returned nothing for an instance with one metric missing
C19_Witness ==
    /\ future["idle"] = "done" /\ future["rightsizing"] = "done"
    /\ instances[1].State = "running"
    /\ instances[1].InstanceType = <<"m5", "large">>
    /\ instances[1].cpu = <<2, 4>>
    /\ instances[1].mem = <<>> /\ instances[1].net = <<>>
    /\ DOMAIN metric_queries["idle"] = {<<1, "cpu">>}
    /\ out["idle"] = <<>> /\ out["rightsizing"] = <<>>

\* ---------------------------------------------------- the progress stream
\* C20: every snapshot the stream emits, the initial one included, carries
\* progress 100 when its status is completed, 0 when it is failed, and
\* min(count x 5, 95) when it is running, the count being the number of
\* opportunities persisted for the scan when the snapshot is built.
C20_ProgressOfSnapshot ==
    [][snapshot' # snapshot =>
          snapshot'[1].progress =
              IF snapshot'[1].status = "completed" THEN 100
              ELSE IF snapshot'[1].status = "failed" THEN 0
              ELSE IF Len(rows) * 5 < 95 THEN Len(rows) * 5 ELSE 95]_vars

\* what a poll observes: the status it refreshed and the rows it reads
Observed ==
    [status |-> seen_status,
     opportunities_found |-> Len(rows),
     total_savings |-> SumAnnual(rows),
     recent_opportunities |-> recent_opportunities(rows)]

\* the same fields of the snapshot emitted last
Reported ==
    [status |-> snapshot[1].status,
     opportunities_found |-> snapshot[1].opportunities_found,
     total_savings |-> snapshot[1].total_savings,
     recent_opportunities |-> snapshot[1].recent_opportunities]

\* C21: in every poll of the stream, if the status, the opportunity count,
\* the cumulative annual savings or the last five opportunities differ from
\* those of the snapshot emitted last, the poll emits a snapshot carrying the
\* values it observed.
C21_ChangeIsReported ==
    [][(streamPc = "query" /\ streamPc' # "query" /\ Observed # Reported) =>
          /\ snapshot' # <<>>
          /\ snapshot'[1].status = seen_status
          /\ snapshot'[1].opportunities_found = Len(rows)
          /\ snapshot'[1].total_savings = SumAnnual(rows)
          /\ snapshot'[1].recent_opportunities = recent_opportunities(rows)]_vars

\* a poll reported opportunities of a scan that is still running
C21_Witness ==
    /\ streamPc = "sleep"
    /\ snapshot # <<>>
    /\ snapshot[1].status = "running"
    /\ snapshot[1].opportunities_found >= 2
    /\ snapshot[1].opportunities_found = Len(rows)
    /\ snapshot[1].total_savings > 0

\* ------------------------------------------------------------- ordering
\* the position of a resource in the listing of describe_instances
ListedAt(resource_id) ==
    CHOOSE i \in 1..Len(instances) : instances[i].InstanceId = resource_id

\* C22: in what a scanner holds, the opportunities are in the order in which
\* describe_instances listed their resources: of two opportunities of one
\* category, that of the resource listed first comes first.
C22_ListingOrderKept ==
    \A c \in Categories :
        \A a, b \in 1..Len(out[c]) :
            a < b => ListedAt(out[c][a].resource_id) < ListedAt(out[c][b].resource_id)

\* ------------------------------------------------------------- liveness
\* C23: every scan, created with status running, eventually reaches
\* completed or failed when every scanner and every call of run_scan returns
\* or raises, whether or not a progress stream polls it.
C23_ScanTerminates ==
    (status = "running") ~> (status \in Terminal)

\* --------------------------------------------------------- notification
\* C24: the notification step is entered only for a scan committed as
\* completed with an address supplied, and from then on, whether the step
\* returns or raises, the status stays completed and the stored total and
\* opportunities do not change.
C24_NotificationNonFatal ==
    [][/\ pc' = "notify" => (status' = "completed" /\ notification_email')
       /\ (pc = "notify" \/ (exc # <<>> /\ exc[1].origin = "notify")) =>
             /\ status' = "completed"
             /\ total_potential_savings' = total_potential_savings
             /\ rows' = rows]_vars

\* ---------------------------------------------------------- scan types
\* C25: in a quick scan only the Reservation scanner is ever invoked and
\* every persisted opportunity has type ri_sp; in a full scan all four
\* scanners are started when the orchestrator is, and when the scan is
\* completed each of them has run exactly once, to its end or to its failure.
C25_QuickAndFull ==
    caller = "run_scan" =>
        /\ scan_type = "quick" =>
              /\ \A c \in Categories \ {"ri_sp"} :
                    /\ future[c] = "none" /\ idx[c] = 0 /\ out[c] = <<>>
                    /\ requests[c] = <<>> /\ ~batched[c]
              /\ \A o \in Range(rows) : o.opportunity_type = "ri_sp"
        /\ (scan_type = "full" /\ pc \notin {"construct", "except", "done"}) =>
              \A c \in Categories : future[c] # "none"
        /\ (scan_type = "full" /\ status = "completed") =>
              \A c \in Categories :
                 /\ future[c] \in {"done", "raised"}
                 /\ idx[c] <= Len(Listing(c))
                 /\ future[c] = "done" => out[c] = Returned(c)

\* a quick scan completed with two Reservation opportunities persisted
C25_Witness ==
    /\ caller = "run_scan" /\ scan_type = "quick"
    /\ status = "completed"
    /\ Len(rows) = 2
    /\ future["ri_sp"] = "done"

\* --------------------------------------------------- error classification
\* the categories in the order in which they are tried
ClassOrder ==
    <<"role_assumption_failed", "permissions_error", "invalid_credentials",
      "account_not_found", "scan_not_found">>

\* the failure message matches the pattern of the category
Matches(category, msg) ==
    CASE category = "role_assumption_failed" ->
            "unable to locate credentials" \in msg \/ "invalid role" \in msg
      [] category = "permissions_error" ->
            "access denied" \in msg \/ "unauthorized" \in msg \/ "forbidden" \in msg
      [] category = "invalid_credentials" ->
            "invalid" \in msg /\ ("arn" \in msg \/ "role" \in msg)
      [] category = "account_not_found" -> "not found" \in msg /\ "account" \in msg
      [] category = "scan_not_found" -> "not found" \in msg /\ "scan" \in msg

FirstCategory(msg) ==
    LET hits == {i \in 1..Len(ClassOrder) : Matches(ClassOrder[i], msg)}
    IN IF hits = {} THEN "scan_failed"
       ELSE ClassOrder[CHOOSE i \in hits : \A j \in hits : i <= j]

\* C26: whenever the status is failed, error_message holds the structured
\* classification (error_type, title, message, details, solutions,
\* technical_details) with the title of its category, and error_type is the
\* first category, in the fixed order, whose pattern the failure message
\* matches, or scan_failed when none does.
C26_FailureIsClassified ==
    status = "failed" =>
        /\ exc # <<>> /\ error_message # <<>>
        /\ DOMAIN error_message[1] =
              {"error_type", "title", "message", "details", "solutions",
               "technical_details"}
        /\ error_message[1].error_type = FirstCategory(exc[1].msg)
        /\ error_message[1].title = ERROR_MESSAGES[FirstCategory(exc[1].msg)].title
        /\ error_message[1].technical_details = exc[1].msg

\* a failure whose message matches the third category only
C26_Witness ==
    /\ status = "failed"
    /\ exc[1].msg = {"role", "invalid"}
    /\ error_message[1].error_type = "invalid_credentials"

\* C30: every scan that failed because _assume_role raised 'Failed to assume
\* role: <upstream message>' is classified as role_assumption_failed,
\* whatever the upstream message.
C30_RoleFailureClassified ==
    (status = "failed" /\ exc # <<>> /\ exc[1].origin = "assume_role") =>
        error_message[1].error_type = "role_assumption_failed"

\* ------------------------------------------------------------ the pool
\* C27: at most four category scanners run at the same time, and when
\* scan_account or scan_account_progressive has returned its outcome no
\* scanner of that invocation is still running: each has finished or failed.
C27_PoolOfFour ==
    /\ Cardinality({c \in Categories : future[c] = "running"}) <= max_workers
    /\ (pc = "batch_returned" \/ ProgressiveReturned) =>
          \A c \in Categories : future[c] \in {"done", "raised"}

\* an invocation returned after one scanner failed and three finished
C27_Witness ==
    /\ pc = "batch_returned"
    /\ Cardinality({c \in Categories : future[c] = "done"}) = 3
    /\ Cardinality({c \in Categories : future[c] = "raised"}) = 1

\* ------------------------------------------------------------- the sink
\* C28: sink calls never overlap: every call of save_callback is a step of
\* the one thread that collects the finished scanners, taken while it is in
\* its save loop, one opportunity at a time, and no worker takes part in it.
C28_SinkCallsAreSerial ==
    [][sinkCalls' # sinkCalls =>
          /\ pc \in {"prog_save", "quick_save"}
          /\ Len(sinkCalls') = Len(sinkCalls) + 1
          /\ SubSeq(sinkCalls', 1, Len(sinkCalls)) = sinkCalls
          /\ workerVars' = workerVars]_vars

\* the sink has been called while other scanners are still running
C28_Witness ==
    /\ pc = "prog_save"
    /\ Len(sinkCalls) >= 1
    /\ Cardinality({c \in Categories : future[c] = "running"}) >= 2

\* ------------------------------------------- the stream's last snapshot
\* C29: once the status is completed or failed no opportunity is persisted
\* any more, so the snapshot with which the polling loop stops (status read
\* first, opportunities after) carries the final number of persisted
\* opportunities and the sum of their annual savings.
C29_TerminalSnapshotIsFinal ==
    /\ [][(status \in Terminal) => (rows' = rows)]_vars
    /\ [](streamPc = "stopped" =>
            /\ snapshot[1].status \in Terminal
            /\ snapshot[1].opportunities_found = Len(rows)
            /\ snapshot[1].total_savings = SumAnnual(rows))

\* the stream stopped on a completed scan with two persisted opportunities
C29_Witness ==
    /\ streamPc = "stopped"
    /\ snapshot[1].status = "completed"
    /\ Len(rows) >= 2
    /\ snapshot[1].opportunities_found = Len(rows)

====
